---- MODULE Spec2Model ----
(***************************************************************************)
(* CATCH (src/catch.py): cal_finder (discovery mode) and cal_checker       *)
(* (verification mode) as state machines.  One step is one stage of the    *)
(* function: a remote query together with the local code that follows it.  *)
(* The remote services (SIMBAD, VizieR) are the environment: every query   *)
(* draws its answer from a small set of tables.                            *)
(*                                                                         *)
(* Numbers are fixed-point integers: magnitudes and RUWE in tenths,        *)
(* angular diameters in thousandths of a mas, IPDfmp and Vbroad in units,  *)
(* declination in degrees.  A masked table cell is the value Masked.       *)
(* sys.exit() is pc = "exit"; an uncaught Python exception is pc = "error".*)
(***************************************************************************)
EXTENDS Integers, Sequences, FiniteSets

VARIABLES
    pc,                      \* the stage the function is about to run
    main_question,           \* main: the mode typed at the prompt, "A" or "B"
    gaia_comp_check,         \* the function's second argument
    star_dec,                \* star_details_table['dec'].value[0]
    jmmc_result,             \* tables, as sequences of rows
    gaia_result,
    kervella_result,
    cruzalebes_result,
    neighbors,               \* cal_finder: the '_q' column of the companion search
    first_cross_check_table, \* cal_finder: the widened tables
    second_cross_check_table,
    fcct,
    file,                    \* cal_finder: <target>_Calibrators.txt, written or not
    init_check_pass_count,   \* cal_checker: full marks
    check_pass_count,        \* cal_checker: running score
    printed,                 \* the report lines printed so far, as tags
    mdfc_entry,              \* the MDFC catalogue's entry for one star (MdfcSpec)
    sky,                     \* the catalogues' contents around the target (OrderSpec)
    order,                   \* the order of the cross-match stages (OrderSpec)
    stage,                   \* the cross-match stages run so far (OrderSpec)
    candidates               \* the table handed from stage to stage (OrderSpec)

vars == <<pc, main_question, gaia_comp_check, star_dec, jmmc_result, gaia_result, kervella_result,
          cruzalebes_result, neighbors, first_cross_check_table,
          second_cross_check_table, fcct, file, init_check_pass_count,
          check_pass_count, printed, mdfc_entry, sky, order, stage, candidates>>

finder_vars == <<neighbors, first_cross_check_table, second_cross_check_table, fcct, file,
                 mdfc_entry>>
checker_vars == <<init_check_pass_count, check_pass_count>>
order_vars == <<sky, order, stage, candidates>>
tables == <<jmmc_result, gaia_result, kervella_result, cruzalebes_result>>

-----------------------------------------------------------------------------
(* Bounds of the model *)

\* most rows a verification-mode query returns
MaxRows == 2
\* most rows the discovery-mode JSDC region search matches
MaxStars == 2
\* most rows a discovery-mode cross-match (Gaia, Kervella, MDFC) matches
MaxMatches == 2
\* most rows the companion search returns around one Gaia row
MaxNeighbors == 2

-----------------------------------------------------------------------------
(* Program constants *)

Masked == -1          \* np.ma.masked
DecLimit == -25       \* star_dec <= -25
VmagMax == 90         \* Vmag > 9
HmagMax == 64         \* Hmag > 6.4
UddhMax == 500        \* UDDH > 0.5
IPDfmpMax == 2        \* IPDfmp > 2
RuweMax == 14         \* RUWE > 1.4
VbroadMax == 100      \* Vbroad > 100
IRflagBad == 7        \* IRflag == 7
UddhMaxFinder == 400  \* "UDDH": "<0.4"
DiamTol == 75         \* abs(Diam-GAIA - UDDH) < 0.075

-----------------------------------------------------------------------------
(* Helpers *)

\* the sequences over S of length lo..hi
SeqsOf(S, lo, hi) == UNION {[1..n -> S] : n \in lo..hi}

\* x > c as numpy evaluates it for a table cell: a masked cell compares to
\* masked, which is false in a condition
Gt(x, c) == x # Masked /\ x > c

RECURSIVE BitOr(_, _)
\* a | b on non-negative integers
BitOr(a, b) ==
    IF a = 0 THEN b
    ELSE IF b = 0 THEN a
    ELSE (IF a % 2 = 1 \/ b % 2 = 1 THEN 1 ELSE 0) + 2 * BitOr(a \div 2, b \div 2)

BoolInt(b) == IF b THEN 1 ELSE 0

\* the limit left open: star_dec < -25
OutsideDecLimitsOpen(dec) == dec < DecLimit
\* lines 55 and 208: star_dec <= -25
OutsideDecLimits(dec) == dec <= DecLimit

-----------------------------------------------------------------------------
(* The answers the services can give in verification mode *)

Decs == {-26, -25, -24}

\* the rows of a star well inside the JSDC limits that has no Vbroad
Hd5678Jsdc == [Vmag |-> 85, Hmag |-> 60, UDDH |-> 450]
Hd5678Gaia == [IPDfmp |-> 1, RUWE |-> 12, Vbroad |-> Masked]

JsdcRows == [Vmag : {85, 90, 91}, Hmag : {64, 65}, UDDH : {500, 501}] \cup {Hd5678Jsdc}
GaiaRows == [IPDfmp : {1, 2, 3, Masked}, RUWE : {14, 15, Masked},
             Vbroad : {100, 101, Masked}] \cup {Hd5678Gaia}
KervellaRows == [DMS : {0, 1}, W : {0, 1}, BinH : {0, 1}, BinG2 : {0, 2}]
MdfcRows == [CalFlag : {0, 1}, IRflag : {0, 1, 7}]

\* a table of a 5" or 10" search: nothing, the star, or the star and
\* further rows (which only their number matters for)
TablesOf(Rows, other) ==
    {<<>>} \cup {<<r>> \o [i \in 1..k |-> other] : r \in Rows, k \in 0..(MaxRows - 1)}

JsdcOther == [Vmag |-> 85, Hmag |-> 64, UDDH |-> 500]
GaiaOther == [IPDfmp |-> 1, RUWE |-> 14, Vbroad |-> 100]
KervellaOther == [DMS |-> 0, W |-> 0, BinH |-> 0, BinG2 |-> 0]
MdfcOther == [CalFlag |-> 0, IRflag |-> 0]

-----------------------------------------------------------------------------
(* cal_checker *)

\* the diameter limit of the discovery-mode query (line 76) used here too
JsdcFailsFinderLimit(r) ==
    Gt(r.Vmag, VmagMax) \/ Gt(r.Hmag, HmagMax) \/ Gt(r.UDDH, UddhMaxFinder)
\* line 234, on the one row of the table
JsdcFails(r) == Gt(r.Vmag, VmagMax) \/ Gt(r.Hmag, HmagMax) \/ Gt(r.UDDH, UddhMax)

\* line 264
HasCompanionsLoose(t) == Len(t) >= 1
HasCompanions(t) == Len(t) > 1

\* line 271
VbroadMissingNever(r) == FALSE
VbroadMissing(r) == r.Vbroad = Masked

\* lines 280-282
GaiaFails(r) ==
    \/ (r.IPDfmp # Masked /\ r.IPDfmp > IPDfmpMax)
    \/ (r.RUWE # Masked /\ r.RUWE > RuweMax)
    \/ (r.Vbroad # Masked /\ r.Vbroad > VbroadMax)

\* lines 306-307: | binds tighter than !=, so the last operand of the
\* chain is the BinG2 column itself and the whole chain is compared with 0
KervellaFails(r) ==
    BitOr(BoolInt(r.DMS # 0 \/ r.W # 0 \/ r.BinH # 0), r.BinG2) # 0

\* line 337
MdfcFails(r) == r.CalFlag # 0 \/ r.IRflag = IRflagBad

\* lines 354-362.  score/total is a float division; total is 4 or 5 and no
\* k/4 or k/5 lies within rounding of 0.7, so the comparisons are exact
ClassificationAt80(score, total) ==
    IF score = total THEN "ideal"
    ELSE IF score < total /\ 10 * score >= 8 * total THEN "usable"
    ELSE "not_viable"
Classification(score, total) ==
    IF score = total THEN "ideal"
    ELSE IF score < total /\ 10 * score >= 7 * total THEN "usable"
    ELSE "not_viable"

\* the subscripts and truth tests of a one-row-per-star table raise
\* ValueError when the search returned several rows (lines 234, 306, 337)
Ambiguous(t) == Len(t) > 1

\* lines 229-250: the score after the JSDC stage
JsdcScore(t, score) ==
    IF Len(t) # 0
    THEN IF JsdcFails(t[1]) THEN score - 1 ELSE score
    ELSE score - 1

\* lines 264-267: the score after the companion warning
CompanionScore(t, flag, score) ==
    IF HasCompanions(t) /\ flag THEN score - 1 ELSE score

\* lines 271-296: the score after the checks on the first Gaia row
GaiaScoreTwice(r, score) ==
    IF VbroadMissing(r) THEN score - 5
    ELSE IF GaiaFails(r)
         THEN IF Gt(r.Vbroad, VbroadMax) THEN ((score - 1) - 5) - 5 ELSE score - 1
         ELSE score
GaiaScore(r, score) ==
    IF VbroadMissing(r) THEN score - 5
    ELSE IF GaiaFails(r)
         THEN IF Gt(r.Vbroad, VbroadMax) THEN (score - 1) - 5 ELSE score - 1
         ELSE score

\* lines 302-325: the score after the Kervella stage
KervellaScoreHard(t, score) ==
    IF Len(t) > 0
    THEN IF KervellaFails(t[1]) THEN score - 5 ELSE score
    ELSE score - 5
KervellaScore(t, score) ==
    IF Len(t) > 0
    THEN IF KervellaFails(t[1]) THEN score - 5 ELSE score
    ELSE score - 1

\* lines 333-351: the score after the MDFC stage
MdfcScore(t, score) ==
    IF Len(t) # 0
    THEN IF MdfcFails(t[1]) THEN score - 1 ELSE score
    ELSE score - 1

\* lines 201-218
CheckerResolve ==
    /\ pc = "resolve"
    /\ \E found \in BOOLEAN, dec \in Decs :
         IF ~found
         THEN /\ pc' = "exit"
              /\ printed' = printed \cup {"not_in_simbad"}
              /\ UNCHANGED <<star_dec, checker_vars>>
         ELSE /\ star_dec' = dec
              /\ IF OutsideDecLimits(dec)
                 THEN /\ pc' = "exit"
                      /\ printed' = printed \cup {"outside_dec_limits"}
                      /\ UNCHANGED checker_vars
                 ELSE /\ pc' = "jsdc"
                      /\ init_check_pass_count' = (IF gaia_comp_check THEN 5 ELSE 4)
                      /\ check_pass_count' = init_check_pass_count'
                      /\ UNCHANGED printed
    /\ UNCHANGED <<order_vars, main_question, gaia_comp_check, tables, finder_vars>>

\* lines 222-250
CheckerJsdc ==
    /\ pc = "jsdc"
    /\ \E t \in TablesOf(JsdcRows, JsdcOther) :
         /\ jmmc_result' = t
         /\ IF Ambiguous(t)
            THEN /\ pc' = "error"
                 /\ UNCHANGED <<check_pass_count, printed>>
            ELSE /\ pc' = "gaia"
                 /\ check_pass_count' = JsdcScore(t, check_pass_count)
                 /\ printed' = printed \cup
                      {IF Len(t) = 0 THEN "jsdc_not_found"
                       ELSE IF JsdcFails(t[1]) THEN "jsdc_fail" ELSE "jsdc_pass"}
    /\ UNCHANGED <<order_vars, main_question, gaia_comp_check, star_dec, gaia_result, kervella_result,
                   cruzalebes_result, finder_vars, init_check_pass_count>>

\* lines 254-263
CheckerGaia ==
    /\ pc = "gaia"
    /\ \E t \in TablesOf(GaiaRows, GaiaOther) :
         /\ gaia_result' = t
         /\ IF Len(t) = 0
            THEN /\ pc' = "exit"
                 /\ printed' = printed \cup {"not_in_gaia"}
            ELSE /\ pc' = "gaia_companions"
                 /\ UNCHANGED printed
    /\ UNCHANGED <<order_vars, main_question, gaia_comp_check, star_dec, jmmc_result, kervella_result,
                   cruzalebes_result, finder_vars, checker_vars>>

\* lines 264-269
CheckerCompanions ==
    /\ pc = "gaia_companions"
    /\ pc' = "gaia_checks"
    /\ printed' = (IF HasCompanions(gaia_result)
                   THEN printed \cup {"companion_warning"} ELSE printed)
    /\ check_pass_count' = CompanionScore(gaia_result, gaia_comp_check, check_pass_count)
    /\ UNCHANGED <<order_vars, main_question, gaia_comp_check, star_dec, tables, finder_vars, init_check_pass_count>>

\* lines 271-296
CheckerGaiaChecks ==
    /\ pc = "gaia_checks"
    /\ pc' = "kervella"
    /\ LET r == gaia_result[1] IN
         /\ check_pass_count' = GaiaScore(r, check_pass_count)
         /\ printed' = printed \cup
              {IF VbroadMissing(r) THEN "vbroad_missing"
               ELSE IF GaiaFails(r) THEN "gaia_fail" ELSE "gaia_pass"}
    /\ UNCHANGED <<order_vars, main_question, gaia_comp_check, star_dec, tables, finder_vars, init_check_pass_count>>

\* lines 299-325
CheckerKervella ==
    /\ pc = "kervella"
    /\ \E t \in TablesOf(KervellaRows, KervellaOther) :
         /\ kervella_result' = t
         /\ IF Ambiguous(t)
            THEN /\ pc' = "error"
                 /\ UNCHANGED <<check_pass_count, printed>>
            ELSE /\ pc' = "mdfc"
                 /\ check_pass_count' = KervellaScore(t, check_pass_count)
                 /\ printed' = printed \cup
                      {IF Len(t) = 0 THEN "kervella_not_found"
                       ELSE IF KervellaFails(t[1]) THEN "kervella_fail" ELSE "kervella_pass"}
    /\ UNCHANGED <<order_vars, main_question, gaia_comp_check, star_dec, jmmc_result, gaia_result,
                   cruzalebes_result, finder_vars, init_check_pass_count>>

\* lines 329-351
CheckerMdfc ==
    /\ pc = "mdfc"
    /\ \E t \in TablesOf(MdfcRows, MdfcOther) :
         /\ cruzalebes_result' = t
         /\ IF Ambiguous(t)
            THEN /\ pc' = "error"
                 /\ UNCHANGED <<check_pass_count, printed>>
            ELSE /\ pc' = "classify"
                 /\ check_pass_count' = MdfcScore(t, check_pass_count)
                 /\ printed' = printed \cup
                      {IF Len(t) = 0 THEN "mdfc_not_found"
                       ELSE IF MdfcFails(t[1]) THEN "mdfc_fail" ELSE "mdfc_pass"}
    /\ UNCHANGED <<order_vars, main_question, gaia_comp_check, star_dec, jmmc_result, gaia_result,
                   kervella_result, finder_vars, init_check_pass_count>>

\* lines 353-364
CheckerClassify ==
    /\ pc = "classify"
    /\ pc' = "done"
    /\ LET c == Classification(check_pass_count, init_check_pass_count) IN
         printed' = printed \cup (IF c = "not_viable" THEN {c, "badcal_suggestion"} ELSE {c})
    /\ UNCHANGED <<order_vars, main_question, gaia_comp_check, star_dec, tables, finder_vars, checker_vars>>

-----------------------------------------------------------------------------
(* The answers the services can give in discovery mode.  A query returns  *)
(* rows the catalogue holds within the radius that satisfy the query's     *)
(* column_filters, each with _q, the 1-based row of the reference table it *)
(* lies around; several rows may lie around one reference row, and the    *)
(* rows come reference row by reference row.                               *)

\* the second argument of cal_finder: None, or the radius typed in
Radii == {[given |-> FALSE, radius |-> 0], [given |-> TRUE, radius |-> 0],
          [given |-> TRUE, radius |-> 5]}

\* if gaia_comp_check: (line 100)
Truthy(a) == a.given /\ a.radius # 0

JsdcSky == [Vmag : {85, 90}, Hmag : {64}, UDDH : {300, 380, 400}, UDDK : {300}, DE : {-24}]
GaiaSky == [IPDfmp : {1, 2}, RUWE : {13}, Vbroad : {99, 100}]
KervellaSky == [DMS : {0}, W : {0}, BinH : {0}, BinG2 : {0, 1}]
MdfcSky == [Diam : {305}, CalFlag : {0, 1}, IRflag : {0, 1, 7}]

\* the answers of a cross-match around the n rows of a reference table
Matches(Rows, n) ==
    {m \in SeqsOf((1..n) \X Rows, 0, MaxMatches) :
       \A i \in 1..(Len(m) - 1) : m[i][1] <= m[i + 1][1]}

\* the answers of the region search around the target
Region(Rows) == SeqsOf(Rows, 0, MaxStars)

\* lines 75-76: column_filters of the JSDC query
JsdcFilter(r) ==
    r.Vmag < VmagMax /\ r.Hmag <= HmagMax /\ r.UDDH < UddhMaxFinder /\ r.DE > DecLimit

\* lines 92-93: column_filters of the Gaia DR3 query
GaiaFilter(r) == r.IPDfmp < IPDfmpMax /\ r.RUWE < RuweMax /\ r.Vbroad < VbroadMax

\* lines 128-129: column_filters of the Kervella query
KervellaFilter(r) == r.DMS = 0 /\ r.W = 0 /\ r.BinH = 0 /\ r.BinG2 = 0

\* lines 146-147: column_filters of the MDFC query
MdfcFilterNot7(r) == r.CalFlag = 0 /\ r.IRflag # IRflagBad
MdfcFilter(r) == r.CalFlag = 0 /\ r.IRflag = 0

\* the table of the region search: the rows are named by their place
JsdcTable(m) ==
    [i \in 1..Len(m) |-> [Name |-> i, UDDH |-> m[i].UDDH, UDDK |-> m[i].UDDK]]

\* the table of a cross-match: each row with its _q and its place in the
\* response
GaiaTable(m) ==
    [i \in 1..Len(m) |-> [q |-> m[i][1], row |-> i, IPDfmp |-> m[i][2].IPDfmp,
                          RUWE |-> m[i][2].RUWE, Vbroad |-> m[i][2].Vbroad]]
KervellaTable(m) ==
    [i \in 1..Len(m) |-> [q |-> m[i][1], row |-> i, BinG2 |-> m[i][2].BinG2]]
MdfcTable(m) ==
    [i \in 1..Len(m) |-> [q |-> m[i][1], row |-> i, Diam |-> m[i][2].Diam,
                          CalFlag |-> m[i][2].CalFlag, IRflag |-> m[i][2].IRflag]]

-----------------------------------------------------------------------------
(* cal_finder *)

\* table[ind], ind a column of zero-based indices
Take(t, ind) == [i \in 1..Len(ind) |-> t[ind[i] + 1]]

\* the _q - 1 of lines 115, 140, 156
Ind(t) == [i \in 1..Len(t) |-> t[i].q - 1]

\* collections.Counter(column)[item]
Count(column, item) == Cardinality({i \in 1..Len(column) : column[i] = item})

\* line 110
RemovalList(nb) == {item \in {nb[i] : i \in 1..Len(nb)} : Count(nb, item) > 1}

\* line 113: the mask is computed on the _q column of gaia_result
Remove(t, removal_list) == SelectSeq(t, LAMBDA r : r.q \notin removal_list)

\* line 162
Consistent(r) ==
    LET abs(x) == IF x < 0 THEN -x ELSE x
    IN  abs(r.mdfc.Diam - r.jsdc.UDDH) < DiamTol /\ abs(r.mdfc.Diam - r.jsdc.UDDK) < DiamTol

\* lines 78, 95, 131, 149: the else branch that exits
NoJsdc(t) == ~(Len(t) > 0)
NoGaia(t) == ~(Len(t) > 0)
NoKervellaUnchecked(t) == FALSE
NoKervella(t) == ~(Len(t) > 0)
NoMdfc(t) == ~(Len(t) > 0)

RECURSIVE NeighborColumn(_, _)
\* the _q column of the companion search: counts[i] rows around row i
NeighborColumn(counts, n) ==
    IF n = 0 THEN <<>>
    ELSE NeighborColumn(counts, n - 1) \o [j \in 1..counts[n] |-> n]

\* lines 47-60
FinderResolve ==
    /\ pc = "resolve"
    /\ \E found \in BOOLEAN, dec \in Decs :
         IF ~found
         THEN /\ pc' = "exit"
              /\ printed' = printed \cup {"not_in_simbad"}
              /\ UNCHANGED star_dec
         ELSE /\ star_dec' = dec
              /\ IF OutsideDecLimits(dec)
                 THEN /\ pc' = "exit"
                      /\ printed' = printed \cup {"outside_dec_limits"}
                 ELSE /\ pc' = "jsdc"
                      /\ UNCHANGED printed
    /\ UNCHANGED <<order_vars, main_question, gaia_comp_check, tables, finder_vars, checker_vars>>

\* lines 64-82
FinderJsdc ==
    /\ pc = "jsdc"
    /\ \E m \in Region({r \in JsdcSky : JsdcFilter(r)}) :
         LET t == JsdcTable(m) IN
           /\ jmmc_result' = t
           /\ IF NoJsdc(t)
              THEN pc' = "exit" /\ printed' = printed \cup {"no_jsdc"}
              ELSE pc' = "gaia" /\ UNCHANGED printed
    /\ UNCHANGED <<order_vars, main_question, gaia_comp_check, star_dec, gaia_result, kervella_result,
                   cruzalebes_result, finder_vars, checker_vars>>

\* lines 85-100
FinderGaia ==
    /\ pc = "gaia"
    /\ \E m \in Matches({r \in GaiaSky : GaiaFilter(r)}, Len(jmmc_result)) :
         LET t == GaiaTable(m) IN
           /\ gaia_result' = t
           /\ IF NoGaia(t)
              THEN pc' = "exit" /\ printed' = printed \cup {"no_gaia"}
              ELSE /\ pc' = (IF Truthy(gaia_comp_check) THEN "neighbors"
                             ELSE "first_cross_check")
                   /\ UNCHANGED printed
    /\ UNCHANGED <<order_vars, main_question, gaia_comp_check, star_dec, jmmc_result, kervella_result,
                   cruzalebes_result, finder_vars, checker_vars>>

\* lines 101-108: the unfiltered, unlimited search around every row of
\* gaia_result, whose own row is always among its matches
FinderNeighbors ==
    /\ pc = "neighbors"
    /\ \E counts \in [1..Len(gaia_result) -> 1..MaxNeighbors] :
         neighbors' = NeighborColumn(counts, Len(gaia_result))
    /\ pc' = "removal"
    /\ UNCHANGED <<order_vars, main_question, gaia_comp_check, star_dec, tables, first_cross_check_table,
                   second_cross_check_table, fcct, file, checker_vars, printed, mdfc_entry>>

\* lines 110-113
FinderRemoval ==
    /\ pc = "removal"
    /\ LET removal_list == RemovalList(neighbors) IN
         gaia_result' = (IF Cardinality(removal_list) > 0
                         THEN Remove(gaia_result, removal_list) ELSE gaia_result)
    /\ pc' = "first_cross_check"
    /\ UNCHANGED <<order_vars, main_question, gaia_comp_check, star_dec, jmmc_result, kervella_result,
                   cruzalebes_result, finder_vars, checker_vars, printed>>

\* lines 115-123: hstack of the JSDC columns taken at ind and the Gaia columns
FinderFirstCrossCheck ==
    /\ pc = "first_cross_check"
    /\ LET jmmc_cols == Take(jmmc_result, Ind(gaia_result)) IN
         first_cross_check_table' =
           [i \in 1..Len(gaia_result) |-> [jsdc |-> jmmc_cols[i], gaia |-> gaia_result[i]]]
    /\ pc' = "kervella"
    /\ UNCHANGED <<order_vars, main_question, gaia_comp_check, star_dec, tables, neighbors,
                   second_cross_check_table, fcct, file, checker_vars, printed, mdfc_entry>>

\* lines 126-141.  When the companion exclusion has emptied gaia_result the
\* query uploads no position: the service answers with no table, or the
\* request fails
FinderKervella ==
    /\ pc = "kervella"
    /\ \/ \E m \in Matches({r \in KervellaSky : KervellaFilter(r)}, Len(gaia_result)) :
            LET t == KervellaTable(m) IN
              /\ kervella_result' = t
              /\ IF NoKervella(t)
                 THEN /\ pc' = "exit"
                      /\ printed' = printed \cup {"no_kervella"}
                      /\ UNCHANGED second_cross_check_table
                 ELSE /\ pc' = "mdfc"
                      /\ LET rows == Take(first_cross_check_table, Ind(t)) IN
                           second_cross_check_table' =
                             [i \in 1..Len(t) |->
                                [jsdc |-> rows[i].jsdc, gaia |-> rows[i].gaia, kerv |-> t[i]]]
                      /\ UNCHANGED printed
       \/ /\ Len(gaia_result) = 0
          /\ pc' = "error"
          /\ UNCHANGED <<kervella_result, second_cross_check_table, printed>>
    /\ UNCHANGED <<order_vars, main_question, gaia_comp_check, star_dec, jmmc_result, gaia_result, cruzalebes_result,
                   neighbors, first_cross_check_table, fcct, file, checker_vars, mdfc_entry>>

\* lines 144-159
FinderMdfc ==
    /\ pc = "mdfc"
    /\ \E m \in Matches({r \in MdfcSky : MdfcFilter(r)}, Len(kervella_result)) :
         LET t == MdfcTable(m) IN
           /\ cruzalebes_result' = t
           /\ IF NoMdfc(t)
              THEN /\ pc' = "exit"
                   /\ printed' = printed \cup {"no_mdfc"}
                   /\ UNCHANGED fcct
              ELSE /\ pc' = "consistency"
                   /\ LET rows == Take(second_cross_check_table, Ind(t)) IN
                        fcct' = [i \in 1..Len(t) |->
                                   [jsdc |-> rows[i].jsdc, gaia |-> rows[i].gaia,
                                    kerv |-> rows[i].kerv, mdfc |-> t[i]]]
                   /\ UNCHANGED printed
    /\ UNCHANGED <<order_vars, main_question, gaia_comp_check, star_dec, jmmc_result, gaia_result, kervella_result,
                   neighbors, first_cross_check_table, second_cross_check_table, file,
                   checker_vars, mdfc_entry>>

\* line 162
FinderConsistency ==
    /\ pc = "consistency"
    /\ fcct' = SelectSeq(fcct, Consistent)
    /\ pc' = "write"
    /\ UNCHANGED <<order_vars, main_question, gaia_comp_check, star_dec, tables, neighbors, first_cross_check_table,
                   second_cross_check_table, file, checker_vars, printed, mdfc_entry>>

\* lines 166-181: the file is written before the table's length is looked at
FinderWrite ==
    /\ pc = "write"
    /\ file' = [written |-> TRUE, rows |-> fcct]
    /\ printed' = printed \cup {IF Len(fcct) > 0 THEN "found_calibrators" ELSE "found_none"}
    /\ pc' = "done"
    /\ UNCHANGED <<order_vars, main_question, gaia_comp_check, star_dec, tables, neighbors, first_cross_check_table,
                   second_cross_check_table, fcct, checker_vars, mdfc_entry>>

NoFile == [written |-> FALSE, rows |-> <<>>]
NoEntry == [Diam |-> 0, CalFlag |-> 0, IRflag |-> 0]
NoSky == [jsdc |-> <<>>, gaia |-> {}, kervella |-> {}, mdfc |-> {}]

CheckerInit ==
    /\ pc = "resolve"
    /\ main_question = "B"
    /\ gaia_comp_check \in BOOLEAN
    /\ star_dec = 0
    /\ jmmc_result = <<>>
    /\ gaia_result = <<>>
    /\ kervella_result = <<>>
    /\ cruzalebes_result = <<>>
    /\ neighbors = <<>>
    /\ first_cross_check_table = <<>>
    /\ second_cross_check_table = <<>>
    /\ fcct = <<>>
    /\ file = NoFile
    /\ init_check_pass_count = 0
    /\ check_pass_count = 0
    /\ printed = {}
    /\ mdfc_entry = NoEntry
    /\ sky = NoSky
    /\ order = <<>>
    /\ stage = 0
    /\ candidates = <<>>

CheckerNext ==
    \/ CheckerResolve
    \/ CheckerJsdc
    \/ CheckerGaia
    \/ CheckerCompanions
    \/ CheckerGaiaChecks
    \/ CheckerKervella
    \/ CheckerMdfc
    \/ CheckerClassify

CheckerSpec == CheckerInit /\ [][CheckerNext]_vars

FinderInit ==
    /\ pc = "resolve"
    /\ main_question = "A"
    /\ gaia_comp_check \in Radii
    /\ star_dec = 0
    /\ jmmc_result = <<>>
    /\ gaia_result = <<>>
    /\ kervella_result = <<>>
    /\ cruzalebes_result = <<>>
    /\ neighbors = <<>>
    /\ first_cross_check_table = <<>>
    /\ second_cross_check_table = <<>>
    /\ fcct = <<>>
    /\ file = NoFile
    /\ init_check_pass_count = 0
    /\ check_pass_count = 0
    /\ printed = {}
    /\ mdfc_entry = NoEntry
    /\ sky = NoSky
    /\ order = <<>>
    /\ stage = 0
    /\ candidates = <<>>

FinderNext ==
    \/ FinderResolve
    \/ FinderJsdc
    \/ FinderGaia
    \/ FinderNeighbors
    \/ FinderRemoval
    \/ FinderFirstCrossCheck
    \/ FinderKervella
    \/ FinderMdfc
    \/ FinderConsistency
    \/ FinderWrite

FinderSpec == FinderInit /\ [][FinderNext]_vars

-----------------------------------------------------------------------------
(* main: the prompt chooses the mode and the companion option, then calls  *)
(* cal_finder or cal_checker.  A list of calibrators (answer M) calls      *)
(* cal_checker once per name, each call as the single call modelled here.  *)

\* lines 371-425
Main ==
    /\ pc = "main"
    /\ \E q \in {"A", "B", ""} :
         /\ main_question' = q
         /\ IF q = "A"
            THEN /\ gaia_comp_check' \in Radii
                 /\ pc' = "resolve"
                 /\ UNCHANGED printed
            ELSE IF q = "B"
            THEN /\ gaia_comp_check' \in BOOLEAN
                 /\ pc' = "resolve"
                 /\ UNCHANGED printed
            ELSE /\ pc' = "exit"
                 /\ printed' = printed \cup {"no_option"}
                 /\ UNCHANGED gaia_comp_check
    /\ UNCHANGED <<order_vars, star_dec, tables, finder_vars, checker_vars>>

MainInit ==
    /\ pc = "main"
    /\ main_question = ""
    /\ gaia_comp_check = FALSE
    /\ star_dec = 0
    /\ jmmc_result = <<>>
    /\ gaia_result = <<>>
    /\ kervella_result = <<>>
    /\ cruzalebes_result = <<>>
    /\ neighbors = <<>>
    /\ first_cross_check_table = <<>>
    /\ second_cross_check_table = <<>>
    /\ fcct = <<>>
    /\ file = NoFile
    /\ init_check_pass_count = 0
    /\ check_pass_count = 0
    /\ printed = {}
    /\ mdfc_entry = NoEntry
    /\ sky = NoSky
    /\ order = <<>>
    /\ stage = 0
    /\ candidates = <<>>

MainNext ==
    \/ Main
    \/ main_question = "A" /\ FinderNext
    \/ main_question = "B" /\ CheckerNext

MainSpec == MainInit /\ [][MainNext]_vars

-----------------------------------------------------------------------------
(* The MDFC stage of both modes on one catalogue entry: the star is the    *)
(* only row of the reference table, and its entry is what the catalogue    *)
(* holds within the search radius.                                         *)

\* CalFlag and IRflag are 3-bit flags
MdfcEntries == [Diam : {300}, CalFlag : 0..7, IRflag : 0..7]

\* lines 144-153, around the one star
MdfcDiscovery ==
    /\ pc = "mdfc_discovery"
    /\ LET t == MdfcTable(SelectSeq(<< <<1, mdfc_entry>> >>, LAMBDA x : MdfcFilter(x[2]))) IN
         /\ cruzalebes_result' = t
         /\ printed' = printed \cup {IF NoMdfc(t) THEN "no_mdfc" ELSE "mdfc_kept"}
    /\ pc' = "mdfc_verification"
    /\ UNCHANGED <<order_vars, main_question, gaia_comp_check, star_dec, jmmc_result, gaia_result, kervella_result,
                   finder_vars, checker_vars>>

\* lines 329-346, the star found
MdfcVerification ==
    /\ pc = "mdfc_verification"
    /\ LET t == <<mdfc_entry>> IN
         /\ cruzalebes_result' = t
         /\ check_pass_count' = MdfcScore(t, check_pass_count)
         /\ printed' = printed \cup {IF MdfcFails(t[1]) THEN "mdfc_fail" ELSE "mdfc_pass"}
    /\ pc' = "done"
    /\ UNCHANGED <<order_vars, main_question, gaia_comp_check, star_dec, jmmc_result, gaia_result, kervella_result,
                   finder_vars, init_check_pass_count>>

MdfcInit ==
    /\ pc = "mdfc_discovery"
    /\ main_question = "A"
    /\ gaia_comp_check = FALSE
    /\ star_dec = 0
    /\ jmmc_result = <<>>
    /\ gaia_result = <<>>
    /\ kervella_result = <<>>
    /\ cruzalebes_result = <<>>
    /\ neighbors = <<>>
    /\ first_cross_check_table = <<>>
    /\ second_cross_check_table = <<>>
    /\ fcct = <<>>
    /\ file = NoFile
    /\ init_check_pass_count = 4
    /\ check_pass_count = 4
    /\ printed = {}
    /\ mdfc_entry \in MdfcEntries
    /\ sky = NoSky
    /\ order = <<>>
    /\ stage = 0
    /\ candidates = <<>>

MdfcNext ==
    \/ MdfcDiscovery
    \/ MdfcVerification

MdfcSpec == MdfcInit /\ [][MdfcNext]_vars

-----------------------------------------------------------------------------
(* The discovery-mode stages on fixed catalogue contents, the companion    *)
(* option not given.  A position is an offset in arcseconds along one      *)
(* axis.  A catalogue is the set of its entries that pass the stage's      *)
(* column_filters, at most one at a position.  query_region around a table *)
(* searches around the positions in that table, and the table it returns   *)
(* holds the positions the queried catalogue reports.  The three           *)
(* cross-match stages run in the order `order`; catch.py runs them in      *)
(* ImplementedOrder.                                                       *)

\* lines 92, 128, 146: radius="10s"
MatchRadius == 10

Offsets == {0, 8, 16}

\* the region search's answers: no star, one star, or two
JsdcRegions ==
    {<<>>,
     <<[Name |-> 1, pos |-> 0, UDDH |-> 300, UDDK |-> 300]>>,
     <<[Name |-> 1, pos |-> 0, UDDH |-> 300, UDDK |-> 300],
       [Name |-> 2, pos |-> 16, UDDH |-> 300, UDDK |-> 300]>>}

MdfcCatalogues ==
    {c \in SUBSET [pos : Offsets, Diam : {305, 400}] :
       \A a, b \in c : a.pos = b.pos => a = b}

Skies == [jsdc : JsdcRegions, gaia : SUBSET [pos : Offsets],
          kervella : SUBSET [pos : Offsets], mdfc : MdfcCatalogues]

ImplementedOrder == <<"gaia", "kervella", "mdfc">>

Orders == {o \in [1..3 -> {"gaia", "kervella", "mdfc"}] :
             \A i, j \in 1..3 : o[i] = o[j] => i = j}

Dist(a, b) == IF a >= b THEN a - b ELSE b - a

\* within ten degrees (the radius of the region search) instead of arcseconds
NearDegrees(e, p) == Dist(e.pos, p) <= MatchRadius * 3600
\* the entry lies within the search radius of the position
Near(e, p) == Dist(e.pos, p) <= MatchRadius

RECURSIVE ByDistance(_, _)
\* "+_r": the matches around one position, nearest first
ByDistance(S, p) ==
    IF S = {} THEN <<>>
    ELSE LET Rank(e) == 2 * Dist(e.pos, p) + (IF e.pos > p THEN 1 ELSE 0)
             e == CHOOSE x \in S : \A y \in S : Rank(x) <= Rank(y)
         IN  <<e>> \o ByDistance(S \ {e}, p)

RECURSIVE CrossMatch(_, _, _)
\* vizier.query_region(t, radius="10s", column_filters=...): the matches
\* around rows i.. of t, each with its _q
CrossMatch(catalogue, t, i) ==
    IF i > Len(t) THEN <<>>
    ELSE LET near == ByDistance({e \in catalogue : Near(e, t[i].pos)}, t[i].pos)
         IN  [j \in 1..Len(near) |-> [q |-> i, entry |-> near[j]]]
               \o CrossMatch(catalogue, t, i + 1)

\* hstack([previous[ind], cols]): the reference row widened by the match's
\* columns; the next query is made around the match's position
HStack(previous, result, name) ==
    LET rows == Take(previous, Ind(result)) IN
      [i \in 1..Len(result) |->
         [f \in (DOMAIN rows[i]) \cup {name} |->
            IF f = name THEN result[i].entry
            ELSE IF f = "pos" THEN result[i].entry.pos
            ELSE rows[i][f]]]

\* one cross-match stage
Stage(name, t) == HStack(t, CrossMatch(sky[name], t, 1), name)

\* where a cross-match stage hands over to
AfterStage(t) ==
    IF ~(Len(t) > 0) THEN "exit"
    ELSE IF stage + 1 = Len(order) THEN "consistency" ELSE "cross_match"

\* lines 64-82
OrderJsdc ==
    /\ pc = "seed"
    /\ candidates' = [i \in 1..Len(sky.jsdc) |->
                        [jsdc |-> sky.jsdc[i], pos |-> sky.jsdc[i].pos]]
    /\ pc' = IF NoJsdc(sky.jsdc) THEN "exit" ELSE "cross_match"
    /\ UNCHANGED <<sky, order, stage, main_question, gaia_comp_check, star_dec, tables,
                   finder_vars, checker_vars, printed>>

\* lines 85-99 and 115-123
OrderGaia ==
    /\ pc = "cross_match"
    /\ order[stage + 1] = "gaia"
    /\ candidates' = Stage("gaia", candidates)
    /\ stage' = stage + 1
    /\ pc' = AfterStage(candidates')
    /\ UNCHANGED <<sky, order, main_question, gaia_comp_check, star_dec, tables,
                   finder_vars, checker_vars, printed>>

\* lines 126-141
OrderKervella ==
    /\ pc = "cross_match"
    /\ order[stage + 1] = "kervella"
    /\ candidates' = Stage("kervella", candidates)
    /\ stage' = stage + 1
    /\ pc' = AfterStage(candidates')
    /\ UNCHANGED <<sky, order, main_question, gaia_comp_check, star_dec, tables,
                   finder_vars, checker_vars, printed>>

\* lines 144-159
OrderMdfc ==
    /\ pc = "cross_match"
    /\ order[stage + 1] = "mdfc"
    /\ candidates' = Stage("mdfc", candidates)
    /\ stage' = stage + 1
    /\ pc' = AfterStage(candidates')
    /\ UNCHANGED <<sky, order, main_question, gaia_comp_check, star_dec, tables,
                   finder_vars, checker_vars, printed>>

\* line 162
OrderConsistency ==
    /\ pc = "consistency"
    /\ candidates' = SelectSeq(candidates, Consistent)
    /\ pc' = "done"
    /\ UNCHANGED <<sky, order, stage, main_question, gaia_comp_check, star_dec, tables,
                   finder_vars, checker_vars, printed>>

OrderInit ==
    /\ pc = "seed"
    /\ main_question = "A"
    /\ gaia_comp_check = [given |-> FALSE, radius |-> 0]
    /\ star_dec = 0
    /\ jmmc_result = <<>>
    /\ gaia_result = <<>>
    /\ kervella_result = <<>>
    /\ cruzalebes_result = <<>>
    /\ neighbors = <<>>
    /\ first_cross_check_table = <<>>
    /\ second_cross_check_table = <<>>
    /\ fcct = <<>>
    /\ file = NoFile
    /\ init_check_pass_count = 0
    /\ check_pass_count = 0
    /\ printed = {}
    /\ mdfc_entry = NoEntry
    /\ sky \in Skies
    /\ order \in Orders
    /\ stage = 0
    /\ candidates = <<>>

OrderNext ==
    \/ OrderJsdc
    \/ OrderGaia
    \/ OrderKervella
    \/ OrderMdfc
    \/ OrderConsistency

OrderSpec == OrderInit /\ [][OrderNext]_vars

-----------------------------------------------------------------------------
(* Verification mode: the claims *)

\* the soft-fail stages of a run: JSDC, MDFC and, when enabled, the companion check
SoftStages == 2 + BoolInt(gaia_comp_check)

\* C3, as stated: for each of JSDC, Gaia DR3, Kervella and MDFC an empty
\* query result takes exactly 1 off the score and the run goes on to the
\* next stage.
C3_EveryEmptyResultSoftFails ==
    [][/\ (pc = "jsdc" /\ jmmc_result' = <<>>) =>
            (check_pass_count' = check_pass_count - 1 /\ pc' = "gaia")
       /\ (pc = "gaia" /\ gaia_result' = <<>>) =>
            (check_pass_count' = check_pass_count - 1
               /\ pc' \in {"gaia_companions", "gaia_checks", "kervella"})
       /\ (pc = "kervella" /\ kervella_result' = <<>>) =>
            (check_pass_count' = check_pass_count - 1 /\ pc' = "mdfc")
       /\ (pc = "mdfc" /\ cruzalebes_result' = <<>>) =>
            (check_pass_count' = check_pass_count - 1 /\ pc' = "classify")]_vars

\* C3, amended: an empty JSDC, Kervella or MDFC result takes exactly 1 off
\* the score and the run goes on to the next stage; an empty Gaia DR3
\* result ends the run at once, with the score untouched and nothing
\* classified.
C3_EmptyResultSoftFailsExceptGaia ==
    [][/\ (pc = "jsdc" /\ jmmc_result' = <<>>) =>
            (check_pass_count' = check_pass_count - 1 /\ pc' = "gaia")
       /\ (pc = "kervella" /\ kervella_result' = <<>>) =>
            (check_pass_count' = check_pass_count - 1 /\ pc' = "mdfc")
       /\ (pc = "mdfc" /\ cruzalebes_result' = <<>>) =>
            (check_pass_count' = check_pass_count - 1 /\ pc' = "classify")
       /\ (pc = "gaia" /\ gaia_result' = <<>>) =>
            (check_pass_count' = check_pass_count /\ pc' = "exit"
               /\ printed' \cap {"ideal", "usable", "not_viable"} = {})]_vars

\* C3, witness: a run in which JSDC, Kervella and MDFC were all empty was
\* classified, three points down.
C3_Witness ==
    /\ pc = "done"
    /\ {"jsdc_not_found", "kervella_not_found", "mdfc_not_found", "gaia_pass"} \subseteq printed
    /\ check_pass_count = init_check_pass_count - 3

\* C4, as stated: whenever IPDfmp, RUWE or Vbroad of the first Gaia row is
\* masked the Gaia stage is not reported as passed and the score goes down,
\* and with Vbroad masked an IPDfmp or RUWE over its limit is still reported
\* as a failed Gaia check.
C4_MaskedNeverPasses ==
    [][(pc = "gaia_checks" /\ pc' = "kervella") =>
         LET r == gaia_result[1] IN
           /\ (r.IPDfmp = Masked \/ r.RUWE = Masked \/ r.Vbroad = Masked) =>
                ("gaia_pass" \notin printed' /\ check_pass_count' < check_pass_count)
           /\ (r.Vbroad = Masked
                 /\ ((r.IPDfmp # Masked /\ r.IPDfmp > IPDfmpMax)
                       \/ (r.RUWE # Masked /\ r.RUWE > RuweMax))) =>
                "gaia_fail" \in printed']_vars

\* C4, amended: a masked Vbroad is never taken as Vbroad < 100: the stage
\* is reported neither as passed nor as failed, the score goes down by 5
\* and IPDfmp and RUWE are not looked at.  With Vbroad present a masked
\* IPDfmp or RUWE is skipped: the stage passes exactly when no present
\* value is over its limit.
C4_MaskedVbroadPenalised ==
    [][(pc = "gaia_checks" /\ pc' = "kervella") =>
         LET r == gaia_result[1] IN
           /\ r.Vbroad = Masked =>
                /\ printed' = printed \cup {"vbroad_missing"}
                /\ check_pass_count' = check_pass_count - 5
           /\ r.Vbroad # Masked =>
                ("gaia_pass" \in printed' <=>
                    /\ (r.IPDfmp = Masked \/ r.IPDfmp <= IPDfmpMax)
                    /\ (r.RUWE = Masked \/ r.RUWE <= RuweMax)
                    /\ r.Vbroad <= VbroadMax)]_vars

\* C4, witness: a first Gaia row with Vbroad masked and IPDfmp over its
\* limit cost 5 points and no failed Gaia check was reported.
C4_Witness ==
    /\ pc = "kervella"
    /\ gaia_result[1].Vbroad = Masked
    /\ gaia_result[1].IPDfmp = 3
    /\ "gaia_fail" \notin printed
    /\ check_pass_count = init_check_pass_count - 5

\* C5, as stated: the score never goes up, no step takes more than 5 off
\* it, and it stays at or above total - 5 * 2 (Gaia, Kervella) - 1 * (the
\* soft-fail stages).
C5_ScoreBoundedByStagePenalties ==
    [][pc # "resolve" =>
         /\ check_pass_count' <= check_pass_count
         /\ check_pass_count - check_pass_count' <= 5
         /\ check_pass_count' >= init_check_pass_count' - 5 * 2 - SoftStages]_vars

\* C5, amended: the score never goes up; the Gaia checks take up to 6 off
\* it (1 for the failed stage and 5 more for Vbroad > 100) and no other
\* step takes more than 5; the score stays at or above
\* total - 6 (Gaia) - 5 (Kervella) - 1 * (the soft-fail stages).
C5_ScoreBoundedWithGaiaSix ==
    [][pc # "resolve" =>
         /\ check_pass_count' <= check_pass_count
         /\ check_pass_count - check_pass_count' <= 6
         /\ (pc # "gaia_checks" => check_pass_count - check_pass_count' <= 5)
         /\ check_pass_count' >= init_check_pass_count' - 6 - 5 - SoftStages]_vars

\* C5, witness: a run that lost every point it could ended at the bound.
C5_Witness ==
    /\ pc = "done"
    /\ check_pass_count = init_check_pass_count - 6 - 5 - SoftStages

\* C7: the JSDC stage passes exactly when Vmag < 9.0, Hmag <= 6.4 and
\* UDDH <= 0.5, and the Gaia stage (all three values present) exactly when
\* IPDfmp < 2, RUWE < 1.4 and Vbroad < 100.
C7_StrictThresholds ==
    /\ (printed \cap {"jsdc_pass", "jsdc_fail"} # {}) =>
         LET r == jmmc_result[1] IN
           "jsdc_pass" \in printed <=>
              (r.Vmag < VmagMax /\ r.Hmag <= HmagMax /\ r.UDDH <= UddhMax)
    /\ (printed \cap {"gaia_pass", "gaia_fail"} # {}
          /\ gaia_result[1].IPDfmp # Masked /\ gaia_result[1].RUWE # Masked) =>
         LET r == gaia_result[1] IN
           "gaia_pass" \in printed <=>
              (r.IPDfmp < IPDfmpMax /\ r.RUWE < RuweMax /\ r.Vbroad < VbroadMax)

\* C9: a finished run is classified ideal exactly when score = total,
\* usable exactly when 0.7 <= score/total < 1, and not viable (with the
\* bad-calibrator suggestion) in every other case.
C9_Classification ==
    pc = "done" =>
      /\ "ideal" \in printed <=> check_pass_count = init_check_pass_count
      /\ "usable" \in printed <=>
           (7 * init_check_pass_count <= 10 * check_pass_count
              /\ check_pass_count < init_check_pass_count)
      /\ "not_viable" \in printed <=> 10 * check_pass_count < 7 * init_check_pass_count
      /\ "badcal_suggestion" \in printed <=> "not_viable" \in printed
      /\ Cardinality(printed \cap {"ideal", "usable", "not_viable"}) = 1

\* C9, witness: a run with 3 of 4 points was classified usable.
C9_Witness ==
    /\ pc = "done"
    /\ init_check_pass_count = 4
    /\ check_pass_count = 3
    /\ "usable" \in printed

-----------------------------------------------------------------------------
(* Discovery mode: the claims *)

\* row i of gaia_result is still in the table after the step
Survives(i) == \E j \in 1..Len(gaia_result') : gaia_result'[j].row = gaia_result[i].row

\* C1: with a radius given, the companion exclusion removes a row of
\* gaia_result exactly when the companion search around that row returned
\* more than one row.
C1_RemovedIffCompanions ==
    [][(pc = "removal" /\ pc' = "first_cross_check") =>
         \A i \in 1..Len(gaia_result) : ~Survives(i) <=> Count(neighbors, i) > 1]_vars

\* C2, as stated: the run does not go on with an empty table after any
\* stage, the consistency filter included, and the file is written only at
\* the end of a run whose final table is not empty.
C2_EmptyIsFatalEverywhere ==
    /\ pc \in {"gaia", "neighbors", "removal", "first_cross_check", "kervella", "mdfc",
               "consistency", "write", "done"} => jmmc_result # <<>>
    /\ pc \in {"neighbors", "removal", "mdfc", "consistency", "write", "done"} =>
         gaia_result # <<>>
    /\ pc \in {"mdfc", "consistency", "write", "done"} => kervella_result # <<>>
    /\ pc \in {"consistency", "write", "done"} => cruzalebes_result # <<>>
    /\ pc \in {"write", "done"} => fcct # <<>>
    /\ file.written => (pc = "done" /\ file.rows # <<>>)

\* C2, amended: the run does not go on with an empty table after the JSDC,
\* Gaia DR3, Kervella or MDFC query, and a gaia_result emptied by the
\* companion exclusion ends the run at the Kervella query; none of these
\* runs writes the file.  An empty table after the consistency filter is
\* not fatal: the run ends normally and the file is written, with no rows.
\* The file is written exactly by the runs that reach the end, and holds
\* the final table.
C2_EmptyIsFatalBeforeConsistency ==
    /\ pc \in {"gaia", "neighbors", "removal", "first_cross_check", "kervella", "mdfc",
               "consistency", "write", "done"} => jmmc_result # <<>>
    /\ pc \in {"neighbors", "removal", "mdfc", "consistency", "write", "done"} =>
         gaia_result # <<>>
    /\ pc \in {"mdfc", "consistency", "write", "done"} => kervella_result # <<>>
    /\ pc \in {"consistency", "write", "done"} => cruzalebes_result # <<>>
    /\ file.written <=> pc = "done"
    /\ pc = "done" => (file.rows = fcct /\ ("found_none" \in printed <=> fcct = <<>>))

\* C2, witness: a run whose every candidate failed the consistency filter
\* ended normally with an empty file written.
C2_Witness ==
    /\ pc = "done"
    /\ fcct = <<>>
    /\ file = [written |-> TRUE, rows |-> <<>>]
    /\ "found_none" \in printed

\* C6: every row of the final table points, stage by stage, at the row of
\* the stage before it that its fields were taken from, down to one JSDC
\* row, and no two rows of the final table come from the same JSDC row.
C6_Provenance ==
    pc \in {"consistency", "write", "done"} =>
      \A i \in 1..Len(fcct) :
        LET r == fcct[i] IN
          /\ r.mdfc.q \in 1..Len(kervella_result)
          /\ kervella_result[r.mdfc.q] = r.kerv
          /\ r.kerv.q \in 1..Len(gaia_result)
          /\ gaia_result[r.kerv.q] = r.gaia
          /\ r.gaia.q \in 1..Len(jmmc_result)
          /\ jmmc_result[r.gaia.q] = r.jsdc
          /\ \A j \in 1..Len(fcct) : j # i => fcct[j].jsdc.Name # r.jsdc.Name

-----------------------------------------------------------------------------
(* The MDFC stage: the claims *)

\* C8, as stated: both modes accept the entry exactly when CalFlag = 0 and
\* IRflag # 7.
C8_SameFlagsBothModes ==
    /\ (printed \cap {"mdfc_kept", "no_mdfc"} # {}) =>
         ("mdfc_kept" \in printed <=>
            (mdfc_entry.CalFlag = 0 /\ mdfc_entry.IRflag # IRflagBad))
    /\ (printed \cap {"mdfc_pass", "mdfc_fail"} # {}) =>
         ("mdfc_pass" \in printed <=>
            (mdfc_entry.CalFlag = 0 /\ mdfc_entry.IRflag # IRflagBad))

\* C8, amended: verification mode passes the entry exactly when
\* CalFlag = 0 and IRflag # 7; discovery mode keeps it exactly when
\* CalFlag = 0 and IRflag = 0.
C8_FlagsPerMode ==
    /\ (printed \cap {"mdfc_kept", "no_mdfc"} # {}) =>
         ("mdfc_kept" \in printed <=> (mdfc_entry.CalFlag = 0 /\ mdfc_entry.IRflag = 0))
    /\ (printed \cap {"mdfc_pass", "mdfc_fail"} # {}) =>
         /\ "mdfc_pass" \in printed <=>
              (mdfc_entry.CalFlag = 0 /\ mdfc_entry.IRflag # IRflagBad)
         /\ "mdfc_pass" \in printed <=> check_pass_count = init_check_pass_count

\* C8, witness: an entry with CalFlag = 0 and IRflag = 1 was dropped by
\* discovery mode and passed by verification mode.
C8_Witness ==
    /\ pc = "done"
    /\ mdfc_entry.CalFlag = 0
    /\ mdfc_entry.IRflag = 1
    /\ {"no_mdfc", "mdfc_pass"} \subseteq printed

-----------------------------------------------------------------------------
(* Both modes: the claims *)

\* the run was rejected at name resolution: the name was not found, or the
\* resolved declination (star_dec is 0 until resolved) is at or below the limit
Rejected == "not_in_simbad" \in printed \/ (star_dec # 0 /\ star_dec <= -25)

\* C11: in both modes a run whose name is not found, or whose resolved
\* declination is <= -25 degrees (-25 included), has exited, and it has
\* issued no catalogue query, computed no score, printed no stage report
\* and written no output file.
C11_RejectedBeforeAnyQuery ==
    Rejected =>
        /\ pc = "exit"
        /\ jmmc_result = <<>> /\ gaia_result = <<>>
        /\ kervella_result = <<>> /\ cruzalebes_result = <<>>
        /\ neighbors = <<>> /\ fcct = <<>>
        /\ init_check_pass_count = 0 /\ check_pass_count = 0
        /\ file = NoFile
        /\ printed \subseteq {"not_in_simbad", "outside_dec_limits"}

\* a discovery-mode run rejected at exactly -25 degrees
C11_Witness ==
    /\ main_question = "A"
    /\ star_dec = -25
    /\ pc = "exit"
    /\ "outside_dec_limits" \in printed

-----------------------------------------------------------------------------
(* Discovery mode, the order of the stages: the claims *)

\* the candidates (JSDC names) of a table
Names(t) == {t[i].jsdc.Name : i \in 1..Len(t)}

RECURSIVE RunStages(_, _)
\* the cross-match stages of o, in turn, on table t
RunStages(t, o) ==
    IF o = <<>> \/ t = <<>> THEN t
    ELSE RunStages(Stage(Head(o), t), Tail(o))

\* the final set of candidates of a whole run in order o (none if the run
\* stopped on an empty table)
FinalSet(o) ==
    LET seed == [i \in 1..Len(sky.jsdc) |-> [jsdc |-> sky.jsdc[i], pos |-> sky.jsdc[i].pos]]
        t == RunStages(seed, o)
    IN  IF t = <<>> THEN {} ELSE Names(SelectSeq(t, Consistent))

\* C12, as stated, for the orders of the three cross-match stages (JSDC
\* first and the consistency filter last, as implemented): a finished run
\* in any order ends with the same set of candidates as the run in the
\* order JSDC -> Gaia -> Kervella -> MDFC -> consistency.
C12_OrderIndependent ==
    pc \in {"done", "exit"} =>
        (IF pc = "done" THEN Names(candidates) ELSE {}) = FinalSet(ImplementedOrder)

\* C12, amended: in the implemented order every row of the final table is a
\* JSDC candidate with a Gaia match within 10" of it, a Kervella match
\* within 10" of that Gaia match, an MDFC match within 10" of that
\* Kervella match, and an MDFC diameter consistent with UDDH and UDDK.
C12_SurvivorsChainThroughStages ==
    (pc = "done" /\ order = ImplementedOrder) =>
        \A n \in 1..Len(candidates) :
            LET r == candidates[n] IN
              \E i \in 1..Len(sky.jsdc), g \in sky.gaia, k \in sky.kervella, m \in sky.mdfc :
                  /\ r.jsdc = sky.jsdc[i]
                  /\ Dist(g.pos, sky.jsdc[i].pos) <= 10
                  /\ Dist(k.pos, g.pos) <= 10
                  /\ Dist(m.pos, k.pos) <= 10
                  /\ r.mdfc = m
                  /\ Dist(m.Diam, r.jsdc.UDDH) < 75
                  /\ Dist(m.Diam, r.jsdc.UDDK) < 75

\* the implemented order ends with the candidate at offset 0 matched, stage
\* by stage, out to an MDFC entry 16" from it
C12_Witness ==
    /\ pc = "done"
    /\ order = ImplementedOrder
    /\ \E n \in 1..Len(candidates) :
          candidates[n].jsdc.pos = 0 /\ candidates[n].mdfc.pos = 16

-----------------------------------------------------------------------------
(* Verification mode, the final score: the claims *)

====
